---- MODULE Spec2Model ----
(***************************************************************************)
(* A model of pydroid-ipcam's IPWebcam: the request pipeline (_request),   *)
(* the update cycle, set_orientation/change_setting and the settings view  *)
(* (current_settings).                                                     *)
(*                                                                         *)
(* Callers are asyncio coroutines run by one event loop: a coroutine runs  *)
(* without interruption from one suspension point (yield from) to the      *)
(* next, so every action below is the code between two suspension points.  *)
(***************************************************************************)
EXTENDS Integers, Sequences, FiniteSets, TLC

\* ---------------------------------------------------------------- bounds
\* Public operations started in one run, over all callers.
MaxCalls == 2
\* Characters in the values of one "curvals" section (settings view).
MaxChars == 4

\* The coroutines calling into one IPWebcam object.
Tasks == {"t1", "t2"}

\* ------------------------------------------------------ program constants
CONTENT_XML == "xml"
CONTENT_JSON == "json"

\* A faulty variant of ALLOWED_ORIENTATIONS: the last entry of the list is lost.
ALLOWED_ORIENTATIONS_short == <<"landscape", "upsidedown", "portrait">>

ALLOWED_ORIENTATIONS ==
    <<"landscape", "upsidedown", "portrait", "upsidedown_portrait">>

\* response.status == 200
HTTP_OK == 200

\* Statuses the device answers with.
Statuses == {200, 404}

\* What a response body is: a well-formed XML document, a JSON object, or a
\* JSON string literal whose value is itself a well-formed XML document.
\* An XML document is not valid JSON and a JSON text is not well-formed XML.
BodyKinds == {"xml", "json_obj", "json_xmlstr"}

\* Arguments of set_orientation that callers pass.
OrientationInputs ==
    {"landscape", "upsidedown", "portrait", "upsidedown_portrait",
     "", "Landscape"}

\* Values of the constructor's timeout argument.
TimeoutArgs == {10}

\* -------------------------------------------------------- python values
\* A value: its type, whether (for a str) it is a well-formed XML document,
\* and the call whose request the device answered with it.
Val(t, wf, tag) == [t |-> t, wf |-> wf, tag |-> tag]

None == Val("None", FALSE, 0)

False == Val("False", FALSE, 0)

NoBody == [kind |-> "-", tag |-> 0]

\* response = None
NoResponse == [status |-> 0, body |-> NoBody]

\* ----------------------------------------------------------------- state
VARIABLES
    auth_global,   \* whether the module namespace binds the name "auth"
    timeout,       \* the constructor's timeout argument
    _timeout,      \* self._timeout
    status_data,   \* self.status_data
    sensor_data,   \* self.sensor_data
    frame,         \* per task: the frame of its running operation
    calls,         \* operations started so far
    lastUpdate,    \* the most recently started update() call
    overlapped,    \* the update() calls that ran while another one ran
    status_by,     \* the update() call that last assigned status_data
    sensor_by,     \* the update() call that last assigned sensor_data
    everPopulated, \* both snapshots were present at the same time once
    settings_out   \* what the last read of current_settings returned

vars == <<auth_global, timeout, _timeout, status_data, sensor_data, frame,
          calls, lastUpdate, overlapped, status_by, sensor_by, everPopulated,
          settings_out>>

\* The summary kept of a task's most recently returned fetch, until the
\* task's next fetch hears from the network.
NoFetch ==
    [valid |-> FALSE, content |-> "-", status |-> 0, kind |-> "-",
     released |-> 0, ret |-> None, exc |-> "none", after |-> "-"]

\* The frame of a task that runs no operation.
IdleFrame ==
    [pc |-> "idle", op |-> "-", arg |-> "-", stage |-> 0, call |-> 0,
     path |-> <<>>, content |-> "-", response |-> NoResponse, data |-> None,
     after |-> "-", cause |-> "-", caught |-> <<>>, released |-> 0,
     ret |-> None,
     exc |-> "none", result |-> None, requested |-> <<>>, gets |-> <<>>,
     last |-> NoFetch]

\* No settings read yet.
NotRead == [t |-> "unread"]

\* __init__: both snapshots are None, and self._timeout is None whatever
\* the timeout argument is (self._auth is set and never read). Nothing in
\* the module binds the name "auth";
\* whether the embedding program has bound it is fixed from the start.
Init ==
    /\ auth_global \in {"unbound", "bound"}
    /\ timeout \in TimeoutArgs
    /\ _timeout = None
    /\ status_data = None
    /\ sensor_data = None
    /\ frame = [t \in Tasks |-> IdleFrame]
    /\ calls = 0
    /\ lastUpdate = 0
    /\ overlapped = {}
    /\ status_by = 0
    /\ sensor_by = 0
    /\ everPopulated = FALSE
    /\ settings_out = NotRead

\* ------------------------------------------------------------- libraries
\* base_url: "http://{}:{}".format(self._host, self._port)
base_url == <<"http://", "host", ":", "port">>

\* '{}{}'.format(self.base_url, path)
Url(path) == base_url \o path

\* response.text(): the body as a str.
Text(body) == Val("str", body.kind = "xml", body.tag)

\* response.json() raises ValueError on a body that is not JSON.
JsonRaises(body) == body.kind \notin {"json_obj", "json_xmlstr"}

\* response.json(): the parsed body, a dict or a str.
Json(body) ==
    IF body.kind = "json_obj" THEN Val("dict", FALSE, body.tag)
    ELSE Val("str", TRUE, body.tag)

\* ET.fromstring raises TypeError on a value that is no str (None, a dict)
\* and ParseError on a str that is not well-formed XML.
FromStringRaises(v) == ~(v.t = "str" /\ v.wf)

\* ET.fromstring: the tree of a well-formed document.
FromString(v) == Val("Element", TRUE, v.tag)

\* -------------------------------------------------------------- _request
\* What is kept of a fetch when it returns.
Summary(f) ==
    [valid |-> TRUE, content |-> f.content, status |-> f.response.status,
     kind |-> f.response.body.kind, released |-> f.released, ret |-> f.ret,
     exc |-> f.exc, after |-> f.after]

\* _request returns ret, or ends with the exception exc.
Return(f, ret, exc) ==
    LET g == [f EXCEPT !.pc = "returned", !.ret = ret, !.exc = exc]
    IN  [g EXCEPT !.last = Summary(g)]

\* Lines 79-86: the condition compares the constant CONTENT_XML, not the
\* content argument, so ET.fromstring is applied to every payload; the
\* errors it raises are caught and give None.
Parse(f) ==
    IF CONTENT_XML = "xml"
    THEN IF FromStringRaises(f.data)
         THEN Return(f, None, "none")
         ELSE Return(f, FromString(f.data), "none")
    ELSE Return(f, f.data, "none")

\* What follows the finally block: the handler's return, the exception that
\* no handler caught, or the parse step.
Leave(f) ==
    CASE f.after = "return" -> Return(f, None, "none")
      [] f.after = "raise"  -> Return(f, None, f.cause)
      [] OTHER              -> Parse(f)

\* A faulty variant of Finally: the response is released only on the way to the
\* parse step, not when an error is on its way out.
Finally_onlyOnSuccess(f) ==
    IF f.response # NoResponse /\ f.after = "parse"
    THEN [f EXCEPT !.released = @ + 1, !.pc = "release"]
    ELSE Leave(f)

\* Lines 75-77: release the response if there is one, and wait for it.
Finally(f) ==
    IF f.response # NoResponse
    THEN [f EXCEPT !.released = @ + 1, !.pc = "release"]
    ELSE Leave(f)

\* Lines 56-62, to the first suspension. The name auth is looked up when
\* the arguments of websession.get are evaluated: unbound, it raises
\* NameError before any request is sent, and no handler catches it.
Start(f, path, content) ==
    LET g == [f EXCEPT !.path = path, !.content = content,
                       !.response = NoResponse, !.data = None,
                       !.after = "-", !.cause = "-", !.released = 0,
                       !.ret = None,
                       !.requested =
                           Append(@, [path |-> path, content |-> content])]
    IN  IF auth_global = "unbound"
        THEN Finally([g EXCEPT !.after = "raise", !.cause = "NameError"])
        ELSE [g EXCEPT !.pc = "get", !.gets = Append(@, Url(path))]

\* A faulty variant of StatusOK: every status below 500 counts as success.
StatusOK_lax(status) == status < 500

\* Line 64: response.status == 200
StatusOK(status) == status = HTTP_OK

\* Lines 62-68: websession.get has returned a response.
OnResponse(f, resp) ==
    LET g == [f EXCEPT !.response = resp, !.last = NoFetch]
    IN  IF StatusOK(resp.status)
        THEN [g EXCEPT !.pc = "read"]
        ELSE Finally([g EXCEPT !.after = "parse"])

\* Lines 65-68: the body has been read, as text or as JSON. A ValueError of
\* response.json() is not among the exceptions line 70 catches.
OnBody(f) ==
    IF f.content = CONTENT_XML
    THEN Finally([f EXCEPT !.data = Text(f.response.body),
                           !.after = "parse"])
    ELSE IF JsonRaises(f.response.body)
         THEN Finally([f EXCEPT !.after = "raise", !.cause = "ValueError"])
         ELSE Finally([f EXCEPT !.data = Json(f.response.body),
                                !.after = "parse"])

\* Lines 70-73: TimeoutError, ClientError and ClientDisconnectedError are
\* logged and the handler returns None.
OnError(f, err) ==
    Finally([f EXCEPT !.after = "return", !.caught = Append(@, f.stage),
                      !.last = NoFetch])

\* ---------------------------------------------------------------- callers
\* In(x, list): x in list
In(x, list) == \E i \in DOMAIN list : list[i] = x

\* A python str or bool passed as a setting's value.
Str(s) == [t |-> "str", s |-> s, b |-> FALSE]

Bool(b) == [t |-> "bool", s |-> "", b |-> b]

\* change_setting, lines 124-128: a bool is sent as on/off, anything else
\* as it is.
SettingPath(key, val) ==
    LET payload == IF val.t = "bool"
                   THEN IF val.b THEN "on" ELSE "off"
                   ELSE val.s
    IN  <<"/settings/", key, "?set=", payload>>

StatusPath == <<"/status.json">>

SensorsPath == <<"/sensors.json">>

\* The operation of a task ends: its caller has the result or the exception.
Done(f, result) == [f EXCEPT !.pc = "done", !.result = result]

\* A faulty variant of Store: a fetch without a result leaves the snapshot alone.
Store_keep(old, new) == IF new = None THEN old ELSE new

\* Lines 91 and 94: the snapshot is assigned what the fetch returned.
Store(old, new) == new

\* Task t's coroutine has run to the frame f. If its fetch has returned, the
\* caller goes on to its next suspension: update (lines 91-95) assigns
\* status_data and starts the second fetch, then assigns sensor_data; a
\* setting change hands the fetch's result to its caller. An exception ends
\* the operation where it is.
Resume(t, f) ==
    IF f.pc # "returned"
    THEN /\ frame' = [frame EXCEPT ![t] = f]
         /\ UNCHANGED <<status_data, sensor_data, status_by, sensor_by,
                        everPopulated>>
    ELSE IF f.exc # "none"
    THEN /\ frame' = [frame EXCEPT ![t] = Done(f, None)]
         /\ UNCHANGED <<status_data, sensor_data, status_by, sensor_by,
                        everPopulated>>
    ELSE IF f.op = "update" /\ f.stage = 1
    THEN LET g == Start([f EXCEPT !.stage = 2], SensorsPath, CONTENT_JSON)
         IN  /\ status_data' = Store(status_data, f.ret)
             /\ status_by' = f.call
             /\ frame' = [frame EXCEPT
                    ![t] = IF g.pc = "returned" THEN Done(g, None) ELSE g]
             /\ everPopulated' =
                    (everPopulated
                        \/ (status_data' # None /\ sensor_data # None))
             /\ UNCHANGED <<sensor_data, sensor_by>>
    ELSE IF f.op = "update"
    THEN /\ sensor_data' = Store(sensor_data, f.ret)
         /\ sensor_by' = f.call
         /\ frame' = [frame EXCEPT ![t] = Done(f, None)]
         /\ everPopulated' =
                (everPopulated \/ (status_data # None /\ sensor_data' # None))
         /\ UNCHANGED <<status_data, status_by>>
    ELSE /\ frame' = [frame EXCEPT ![t] = Done(f, f.ret)]
         /\ UNCHANGED <<status_data, sensor_data, status_by, sensor_by,
                        everPopulated>>

\* The update() calls in progress.
Updating == {frame[u].call : u \in {v \in Tasks :
                frame[v].op = "update" /\ frame[v].pc # "done"}}

\* A faulty variant of MayCall: update() waits while another update() runs.
MayCall_locked(t, name) ==
    /\ frame[t].pc = "idle"
    /\ calls < MaxCalls
    /\ name = "update" => Updating = {}

\* A task that runs nothing may start any operation: neither update nor
\* the setters take a lock or look at what other callers are doing.
MayCall(t, name) ==
    /\ frame[t].pc = "idle"
    /\ calls < MaxCalls

\* update(), lines 88-92, to the first suspension.
Call_update(t) ==
    /\ MayCall(t, "update")
    /\ calls' = calls + 1
    /\ lastUpdate' = calls + 1
    /\ overlapped' = IF Updating = {} THEN overlapped
                     ELSE overlapped \cup Updating \cup {calls + 1}
    /\ Resume(t, Start([IdleFrame EXCEPT !.op = "update", !.stage = 1,
                                         !.call = calls + 1],
                       StatusPath, CONTENT_JSON))
    /\ UNCHANGED <<auth_global, timeout, _timeout, settings_out>>

\* set_orientation, lines 191-199, awaited by its caller: a value outside
\* the list gives False at once; any other goes to change_setting.
Call_set_orientation(t, orientation) ==
    /\ MayCall(t, "set_orientation")
    /\ calls' = calls + 1
    /\ LET f == [IdleFrame EXCEPT !.op = "set_orientation",
                                  !.arg = orientation, !.call = calls + 1]
       IN  IF ~In(orientation, ALLOWED_ORIENTATIONS)
           THEN /\ frame' = [frame EXCEPT ![t] = Done(f, False)]
                /\ UNCHANGED <<status_data, sensor_data, status_by,
                               sensor_by, everPopulated>>
           ELSE Resume(t, Start(f, SettingPath("orientation",
                                               Str(orientation)),
                                CONTENT_XML))
    /\ UNCHANGED <<auth_global, timeout, _timeout, lastUpdate, overlapped,
                   settings_out>>

\* The caller takes the result; the task is free again.
Ack(t) ==
    /\ frame[t].pc = "done"
    /\ frame' = [frame EXCEPT ![t] = IdleFrame]
    /\ UNCHANGED <<auth_global, timeout, _timeout, status_data, sensor_data,
                   calls, lastUpdate, overlapped, status_by, sensor_by,
                   everPopulated, settings_out>>

\* --------------------------------------------------- network and event loop
Waiting(t) == frame[t].pc \in {"get", "read"}

\* The device answers the request of task t.
NetResponds(t, status, kind) ==
    /\ frame[t].pc = "get"
    /\ Resume(t, OnResponse(frame[t],
                   [status |-> status,
                    body |-> [kind |-> kind, tag |-> frame[t].call]]))
    /\ UNCHANGED <<auth_global, timeout, _timeout, calls, lastUpdate,
                   overlapped, settings_out>>

\* The body of the response has arrived.
NetBody(t) ==
    /\ frame[t].pc = "read"
    /\ Resume(t, OnBody(frame[t]))
    /\ UNCHANGED <<auth_global, timeout, _timeout, calls, lastUpdate,
                   overlapped, settings_out>>

\* The connection fails while task t waits for the response or its body.
NetFails(t, err) ==
    /\ Waiting(t)
    /\ Resume(t, OnError(frame[t], err))
    /\ UNCHANGED <<auth_global, timeout, _timeout, calls, lastUpdate,
                   overlapped, settings_out>>

\* The event loop wakes task t by itself: the release it waits for is over,
\* or the timer of async_timeout.timeout(self._timeout) has run out, which
\* takes a timeout that is not None (line 61).
LoopResume(t) ==
    /\ \/ /\ frame[t].pc = "release"
          /\ Resume(t, Leave(frame[t]))
       \/ /\ Waiting(t)
          /\ _timeout # None
          /\ Resume(t, OnError(frame[t], "TimeoutError"))
    /\ UNCHANGED <<auth_global, timeout, _timeout, calls, lastUpdate,
                   overlapped, settings_out>>

Next ==
    \/ \E t \in Tasks : Call_update(t)
    \/ \E t \in Tasks, o \in OrientationInputs : Call_set_orientation(t, o)
    \/ \E t \in Tasks, s \in Statuses, k \in BodyKinds : NetResponds(t, s, k)
    \/ \E t \in Tasks : NetBody(t)
    \/ \E t \in Tasks, e \in {"ClientError", "ClientDisconnectedError"} :
            NetFails(t, e)
    \/ \E t \in Tasks : LoopResume(t)
    \/ \E t \in Tasks : Ack(t)

Spec == Init /\ [][Next]_vars

\* The event loop runs every coroutine that is ready. Nothing makes the
\* device answer, and nothing makes a caller call.
FairSpec == Spec /\ \A t \in Tasks : WF_vars(LoopResume(t))

\* ----------------------------------------------------------- settings view
\* A python str of the settings view is the sequence of its characters.
Chars == {"8", "0", ".", "-", "o", "n", "f"}

StrOfLen(n) == [1..n -> Chars]

on == <<"o", "n">>

off == <<"o", "f", "f">>

IsDigit(c) == c \in {"8", "0"}

DigitVal(c) == IF c = "8" THEN 8 ELSE 0

\* The text after an optional sign.
Unsigned(s) == IF s # <<>> /\ s[1] = "-" THEN Tail(s) ELSE s

\* float(s) accepts an optional sign, then digits with at most one point
\* among them and at least one digit; anything else over these characters
\* raises ValueError.
FloatParses(s) ==
    LET b == Unsigned(s)
    IN  /\ \A i \in DOMAIN b : IsDigit(b[i]) \/ b[i] = "."
        /\ Cardinality({i \in DOMAIN b : b[i] = "."}) <= 1
        /\ \E i \in DOMAIN b : IsDigit(b[i])

RECURSIVE Mantissa(_, _)
\* The digits of b read as one integer, the point skipped.
Mantissa(b, acc) ==
    IF b = <<>> THEN acc
    ELSE IF b[1] = "." THEN Mantissa(Tail(b), acc)
    ELSE Mantissa(Tail(b), 10 * acc + DigitVal(b[1]))

RECURSIVE Normal(_, _)
\* m / 10^e with no trailing zero in the fraction.
Normal(m, e) ==
    IF e > 0 /\ m % 10 = 0 THEN Normal(m \div 10, e - 1)
    ELSE [t |-> "float", m |-> m, e |-> e]

\* float(s) of a text that parses: the number m / 10^e.
Float(s) ==
    LET b == Unsigned(s)
        dot == {i \in DOMAIN b : b[i] = "."}
        e == IF dot = {} THEN 0 ELSE Len(b) - (CHOOSE i \in dot : TRUE)
        m == Mantissa(b, 0)
    IN  Normal(IF b # s THEN 0 - m ELSE m, e)

\* A faulty variant of Coerce: on and off are not turned into booleans.
Coerce_noBool(val) ==
    IF FloatParses(val) THEN Float(val) ELSE [t |-> "str", s |-> val]

\* Lines 108-114: float(val) if it parses, else val; then on/off to bool.
Coerce(val) ==
    LET v == IF FloatParses(val) THEN Float(val) ELSE [t |-> "str", s |-> val]
    IN  IF v = [t |-> "str", s |-> on] \/ v = [t |-> "str", s |-> off]
        THEN [t |-> "bool", b |-> (v = [t |-> "str", s |-> on])]
        ELSE v

\* A status snapshot as /status.json gives it: a dict, with or without a
\* "curvals" section, which maps setting names to strings.
Status(has, curvals) ==
    [t |-> "dict", has_curvals |-> has, curvals |-> curvals]

\* current_settings, lines 102-117: None without a snapshot, else the
\* coerced values of status_data.get('curvals', {}).
current_settings(sd) ==
    IF sd = None THEN None
    ELSE LET cur == IF sd.has_curvals THEN sd.curvals ELSE <<>>
         IN  [t |-> "dict",
              items |-> [k \in DOMAIN cur |-> Coerce(cur[k])]]

\* The snapshots the settings view is read on: none, a dict without
\* curvals, and curvals of no, one or two settings whose values are the
\* strings a and b.
StatusInputs(a, b) ==
    {None, Status(FALSE, <<>>), Status(TRUE, <<>>),
     Status(TRUE, [k \in {"quality"} |-> a]),
     Status(TRUE, [k \in {"quality", "night_vision"} |->
                        IF k = "quality" THEN a ELSE b])}

\* An IPWebcam object whose status_data holds one of the snapshots.
InitSettings ==
    /\ auth_global = "unbound"
    /\ timeout \in TimeoutArgs
    /\ _timeout = None
    /\ \E i \in 0..MaxChars : \E j \in 0..(MaxChars - i) :
       \E a \in StrOfLen(i), b \in StrOfLen(j) :
            status_data \in StatusInputs(a, b)
    /\ sensor_data = None
    /\ frame = [t \in Tasks |-> IdleFrame]
    /\ calls = 0
    /\ lastUpdate = 0
    /\ overlapped = {}
    /\ status_by = 0
    /\ sensor_by = 0
    /\ everPopulated = FALSE
    /\ settings_out = NotRead

\* A caller reads the current_settings property.
ReadSettings ==
    /\ settings_out' = current_settings(status_data)
    /\ UNCHANGED <<auth_global, timeout, _timeout, status_data, sensor_data,
                   frame, calls, lastUpdate, overlapped, status_by,
                   sensor_by, everPopulated>>

NextSettings == ReadSettings

SpecSettings == InitSettings /\ [][NextSettings]_vars

\* ================================================================ claims
Fetched(t) == frame[t].last.valid

\* A body of the kind the content hint declares.
KindMatches(content, kind) ==
    \/ content = "xml" /\ kind = "xml"
    \/ content = "json" /\ kind \in {"json_obj", "json_xmlstr"}

\* An update() call of task t has returned, no other update() ran during
\* it and none has started since.
UpdatedAlone(t) ==
    /\ frame[t].pc = "done"
    /\ frame[t].op = "update"
    /\ frame[t].call \notin overlapped
    /\ frame[t].call = lastUpdate

\* C1: a fetch that ends in a transport failure returns None, and no
\* operation ends with an exception in the hands of its caller.
C1_NoExceptionEscapes ==
    \A t \in Tasks :
        /\ frame[t].exc = "none"
        /\ Fetched(t) /\ frame[t].last.after = "return"
                => frame[t].last.ret = None

C9_Expected(val) ==
    IF FloatParses(val) THEN Float(val)
    ELSE IF val = <<"o", "n">> THEN [t |-> "bool", b |-> TRUE]
    ELSE IF val = <<"o", "f", "f">> THEN [t |-> "bool", b |-> FALSE]
    ELSE [t |-> "str", s |-> val]

\* C9: current_settings of no snapshot is None; of a snapshot it has one
\* entry per key of curvals: the number for a numeric string, true and
\* false for on and off, and the same string for anything else.
C9_SettingsCoerced ==
    settings_out # NotRead =>
        IF status_data = None THEN settings_out = None
        ELSE LET cur == IF status_data.has_curvals
                        THEN status_data.curvals ELSE <<>>
             IN  /\ settings_out.t = "dict"
                 /\ DOMAIN settings_out.items = DOMAIN cur
                 /\ \A k \in DOMAIN cur :
                        settings_out.items[k] = C9_Expected(cur[k])

\* C9: the settings of {"curvals": {"quality": "80", "night_vision": "on"}}
\* have been read and are {"quality": 80.0, "night_vision": True}.
C9_Witness ==
    /\ status_data # None
    /\ status_data.has_curvals
    /\ DOMAIN status_data.curvals = {"quality", "night_vision"}
    /\ status_data.curvals["quality"] = <<"8", "0">>
    /\ status_data.curvals["night_vision"] = <<"o", "n">>
    /\ settings_out # NotRead
    /\ settings_out.items["quality"] = [t |-> "float", m |-> 80, e |-> 0]
    /\ settings_out.items["night_vision"] = [t |-> "bool", b |-> TRUE]

====
